---------------------------- MODULE Spec2Model ----------------------------
(***************************************************************************)
(* Model of pysphere/vi_event_history_collector.py: the client wrapper     *)
(* VIEventHistoryCollector around the server's EventHistoryCollector.      *)
(*                                                                         *)
(* Python values are modelled as follows.  An optional value is a set with *)
(* at most one element: None is {} and a present value v is {v}.  A list   *)
(* or tuple is a sequence.  An exception is a record [type, detail].       *)
(* Events are identified by their key (event ID); the server's history is  *)
(* the sequence of keys 1..srvLen, oldest first.                           *)
(***************************************************************************)
EXTENDS Integers, Sequences, FiniteSets, TLC

\* ------------------------------------------------------------------ bounds
MaxHist == 3
MaxCount == 2
MaxPage == 1

\* ------------------------------------------------------- python primitives
None == {}
Some(v) == {v}
Val(o) == CHOOSE v \in o : TRUE

Min(a, b) == IF a < b THEN a ELSE b
Max(a, b) == IF a > b THEN a ELSE b

NoExc == [type |-> "none", detail |-> "none"]
NoFault == "none"

\* The managed-object references the server can hand out for a new collector.
Handles == {"session[1]collector", "session[2]collector"}
\* server._do_service_content.EventManager
EventManager == "EventManager"

\* The faults a live server may answer a call with, and the one it answers
\* for a collector that no longer exists.
LiveFaults == {"InvalidState", "RuntimeFault"}
GoneFault == "ManagedObjectNotFound"

\* ------------------------------------------------------------ input values
TimeValues == {None, Some(<<2011, 1, 1>>)}
TypeValues == {None, Some(<<>>), Some(<<"UserLoginSessionEvent">>)}
UserValues ==
    {None} \cup
    {Some(<<ul, sys>>) : ul \in {<<>>, <<"root">>}, sys \in BOOLEAN}

MaxCountValues ==
    {[type |-> "int", val |-> n] : n \in 0..MaxCount} \cup
    {[type |-> "bool", val |-> 1], [type |-> "long", val |-> 1],
     [type |-> "float", val |-> 1], [type |-> "str", val |-> 0]}

\* ---------------------------------------------------------- python truth
\* if(beginTime) / if(endTime): None is false, a time tuple is true.
TruthyTime(o) == o # None
\* if(include_types) / if(include_users[0]): None and [] are false.
TruthyList(o) == o # None /\ Len(Val(o)) > 0
\* if(include_users): None is false, the 2-tuple (users, system) is true.
TruthyTuple(o) == o # None /\ Len(Val(o)) > 0

\* ------------------------------------------------------- request building
\* request.new__this(m); _this.set_attribute_type(m.get_attribute_type())
NewThis(m) == [value |-> m, type |-> "mor"]

NewRequest(name, this) ==
    [name |-> name, this |-> this, filter |-> None, maxCount |-> None]

\* do_EventFilterSpecByTime
BuildTime(beginTime, endTime) ==
    [beginTime |-> IF TruthyTime(beginTime) THEN Some(Val(beginTime)) ELSE None,
     endTime   |-> IF TruthyTime(endTime) THEN Some(Val(endTime)) ELSE None]

\* Variant: the user list is attached even when it is empty.
BuildUser_AlwaysList(include_users) ==
    [systemUser |-> Some(Val(include_users)[2]),
     userList   |-> Some(Val(include_users)[1])]

\* do_EventFilterSpecByUser
BuildUser(include_users) ==
    [systemUser |-> Some(Val(include_users)[2]),
     userList   |-> IF TruthyList(Some(Val(include_users)[1]))
                    THEN Some(Val(include_users)[1]) ELSE None]

\* _filter
BuildFilter(include_types, include_users, beginTime, endTime) ==
    [time        |-> IF TruthyTime(beginTime) \/ TruthyTime(endTime)
                     THEN Some(BuildTime(beginTime, endTime)) ELSE None,
     eventTypeId |-> IF TruthyList(include_types)
                     THEN Some(Val(include_types)) ELSE None,
     userName    |-> IF TruthyTuple(include_users)
                     THEN Some(BuildUser(include_users)) ELSE None]

\* Variant: the filter is attached only when it has a sub-filter.
AttachFilter_OnlyIfSupplied(request, filter) ==
    IF filter.time = None /\ filter.eventTypeId = None /\ filter.userName = None
    THEN request
    ELSE [request EXCEPT !.filter = Some(filter)]

\* request.set_element_filter(_filter)
AttachFilter(request, filter) == [request EXCEPT !.filter = Some(filter)]

CreateRequest(include_types, include_users, beginTime, endTime) ==
    AttachFilter(NewRequest("CreateCollectorForEvents", NewThis(EventManager)),
                 BuildFilter(include_types, include_users, beginTime, endTime))

\* Variant: the direction is ignored.
ReadRpcName_AlwaysNext(next_page) == "ReadNextEvents"

\* Variant: the two branches are exchanged.
ReadRpcName_Swapped(next_page) ==
    IF next_page THEN "ReadPreviousEvents" ELSE "ReadNextEvents"

\* __read_events: the request for one page in the given direction.
ReadRpcName(next_page) ==
    IF next_page THEN "ReadNextEvents" ELSE "ReadPreviousEvents"

\* Variant: the request is addressed to the event manager.
CollectorThis_EventManager(m) == NewThis(EventManager)

\* The _this element of every call made on the collector itself.
CollectorThis(m) == NewThis(Val(m))

ReadRequest(m, max_count, next_page) ==
    [NewRequest(ReadRpcName(next_page), CollectorThis(m))
        EXCEPT !.maxCount = Some(max_count.val)]

\* Variant: any number passes the check.
IsInstanceInt_Numeric(v) == v.type \in {"int", "bool", "long", "float"}

\* isinstance(max_count, int): bool is a subclass of int, long is not.
IsInstanceInt(v) == v.type \in {"int", "bool"}

\* raise VIException("max_count should be an integer", FaultTypes.PARAMETER_ERROR)
ParameterError == [type |-> "VIException", detail |-> "PARAMETER_ERROR"]

\* except (VI.ZSI.FaultException), e: raise VIApiException(e)
TranslateFault(fault) == [type |-> "VIApiException", detail |-> fault]

\* A call outside any try block: the transport's exception leaves the method.
PropagateFault(fault) == [type |-> "FaultException", detail |-> fault]

\* An attribute looked up on None.
AttributeError == [type |-> "AttributeError", detail |-> "NoneType"]

\* ret.append(VIProperty(self._server, event)) for each event of the response.
WrapEvents(resp) == [i \in 1..Len(resp) |-> [server |-> "server", obj |-> resp[i]]]

\* --------------------------------------------------- the property view
Unfetched == {}

\* VIProperty(self._server, self._mor): nothing is fetched yet.
NewProperty(m) == [created |-> TRUE, mor |-> m, cache |-> Unfetched]
NoProperty == [created |-> FALSE, mor |-> None, cache |-> Unfetched]

\* self._props._flush_cache()
FlushCache(p) == [p EXCEPT !.cache = Unfetched]

\* First attribute access after a flush retrieves the object's properties;
\* later accesses are answered from the cache.
FetchProperty(p, serverValue) ==
    IF p.cache = Unfetched THEN [p EXCEPT !.cache = Some(serverValue)] ELSE p

\* hasattr(self._props, "latestPage") / self._props.latestPage
HasLatestPage(p) == Val(p.cache) # None
LatestPageOf(p) == Val(Val(p.cache))

\* --------------------------------------------------------------- state
VARIABLES
    pc,           \* "new", "constructed" or "failed": the constructor's outcome
    mor,          \* self._mor
    props,        \* self._props
    srvMor,       \* server: the reference of the collector it created
    srvAlive,     \* server: the collector exists (created and not destroyed)
    srvLen,       \* server: number of events in the history (keys 1..srvLen)
    srvCursor,    \* server: scrollable view, number of items before the position
    srvPageSize,  \* server: size of the viewable latest page
    last,         \* the last call on the wrapper: what it sent, raised, returned
    walk,         \* items read since the last reposition, while in one direction
    streak        \* consecutive answered reads of at least one item, one direction

vars == <<pc, mor, props, srvMor, srvAlive, srvLen, srvCursor, srvPageSize,
          last, walk, streak>>

srvVars == <<srvMor, srvAlive, srvLen, srvCursor, srvPageSize>>

\* -------------------------------------------------------------- server
\* The server's answer to a call on managed object `this`.
SrvFaults(this) ==
    IF srvAlive /\ Some(this.value) = srvMor
    THEN {NoFault} \cup LiveFaults
    ELSE {GoneFault}

\* ReadNextEvents / ReadPreviousEvents of at most n items from the position.
SrvRead(name, cursor, len, n) ==
    IF name = "ReadNextEvents"
    THEN LET k == Max(0, Min(n, len - cursor))
         IN  [items |-> [i \in 1..k |-> cursor + i], cursor |-> cursor + k]
    ELSE LET k == Max(0, Min(n, cursor))
         IN  [items |-> [i \in 1..k |-> cursor - i + 1], cursor |-> cursor - k]

\* RewindCollector: the oldest item.  ResetCollector: just after the newest.
SrvRewind(len) == 0
SrvReset(len) == len

\* The latestPage property: the newest pageSize items; absent when empty.
SrvLatestPage(len, pageSize) ==
    IF len = 0 \/ pageSize = 0
    THEN None
    ELSE LET k == Min(len, pageSize)
         IN  Some([i \in 1..k |-> len - k + i])

\* What retrieving latestPage yields: nothing once the collector is gone
\* (hasattr answers False for an attribute whose retrieval fails).
PropertyValue ==
    IF srvAlive THEN SrvLatestPage(srvLen, srvPageSize) ELSE None

Pre ==
    [cursor |-> srvCursor, len |-> srvLen, alive |-> srvAlive,
     page |-> PropertyValue, mor |-> mor, cache |-> props.cache]

Call(op, arg, rpcs, fault, exc, ret) ==
    [op |-> op, arg |-> arg, rpcs |-> rpcs, fault |-> fault, exc |-> exc,
     ret |-> ret, pre |-> Pre]

NoWalk == [dir |-> "none", start |-> 0, items |-> <<>>]
NoStreak == [dir |-> "none", count |-> 0]

Init ==
    /\ pc = "new"
    /\ mor = None
    /\ props = NoProperty
    /\ srvMor = None
    /\ srvAlive = FALSE
    /\ srvLen \in 0..MaxHist
    /\ srvCursor = 0
    /\ srvPageSize \in 1..MaxPage
    /\ last = Call("none", None, <<>>, NoFault, NoExc, None)
    /\ walk = NoWalk
    /\ streak = NoStreak

\* ----------------------------------------------------------- construction
\* Variant: the reference is stored whether or not the call faulted.
MorAfterInit_Early(fault, resp) == Some(resp)

\* self._mor = None; ...; self._mor = resp (reached only without a fault)
MorAfterInit(fault, resp) == IF fault = NoFault THEN Some(resp) ELSE None

\* self._props = VIProperty(self._server, self._mor)
PropsAfterInit(fault, resp) ==
    IF fault = NoFault THEN NewProperty(Some(resp)) ELSE NoProperty

__init__(include_types, include_users, beginTime, endTime) ==
    /\ pc = "new"
    /\ LET request == CreateRequest(include_types, include_users, beginTime, endTime)
           args == [include_types |-> include_types, include_users |-> include_users,
                    beginTime |-> beginTime, endTime |-> endTime]
       IN  \E fault \in {NoFault} \cup LiveFaults, resp \in Handles :
             /\ mor' = MorAfterInit(fault, resp)
             /\ props' = PropsAfterInit(fault, resp)
             /\ pc' = IF fault = NoFault THEN "constructed" ELSE "failed"
             /\ srvMor' = IF fault = NoFault THEN Some(resp) ELSE None
             /\ srvAlive' = (fault = NoFault)
             /\ srvCursor' = SrvRewind(srvLen)
             /\ last' = Call("__init__", args, <<request>>, fault,
                             IF fault = NoFault THEN NoExc ELSE TranslateFault(fault),
                             None)
             /\ walk' = IF fault = NoFault
                        THEN [dir |-> "next", start |-> 0, items |-> <<>>]
                        ELSE NoWalk
             /\ streak' = NoStreak
             /\ UNCHANGED <<srvLen, srvPageSize>>

\* ------------------------------------------------- calls without a result
\* A method whose self._mor is None fails on self._mor.get_attribute_type().
LocalFailure(op, arg) ==
    /\ last' = Call(op, arg, <<>>, NoFault, AttributeError, None)
    /\ streak' = NoStreak
    /\ UNCHANGED <<pc, mor, props, srvVars, walk>>

\* self._server._proxy.<Name>(request), not inside a try block.
PlainCall(op, arg, request, fault) ==
    Call(op, arg, <<request>>, fault,
         IF fault = NoFault THEN NoExc ELSE PropagateFault(fault), None)

reset_collector ==
    /\ pc = "constructed"
    /\ IF mor = None THEN LocalFailure("reset_collector", None) ELSE
       LET request == NewRequest("ResetCollector", CollectorThis(mor))
       IN  \E fault \in SrvFaults(request.this) :
             /\ srvCursor' = IF fault = NoFault THEN SrvReset(srvLen) ELSE srvCursor
             /\ last' = PlainCall("reset_collector", None, request, fault)
             /\ walk' = IF fault = NoFault
                        THEN [dir |-> "prev", start |-> srvLen, items |-> <<>>]
                        ELSE walk
             /\ streak' = NoStreak
             /\ UNCHANGED <<pc, mor, props, srvMor, srvAlive, srvLen, srvPageSize>>

rewind_collector ==
    /\ pc = "constructed"
    /\ IF mor = None THEN LocalFailure("rewind_collector", None) ELSE
       LET request == NewRequest("RewindCollector", CollectorThis(mor))
       IN  \E fault \in SrvFaults(request.this) :
             /\ srvCursor' = IF fault = NoFault THEN SrvRewind(srvLen) ELSE srvCursor
             /\ last' = PlainCall("rewind_collector", None, request, fault)
             /\ walk' = IF fault = NoFault
                        THEN [dir |-> "next", start |-> 0, items |-> <<>>]
                        ELSE walk
             /\ streak' = NoStreak
             /\ UNCHANGED <<pc, mor, props, srvMor, srvAlive, srvLen, srvPageSize>>

\* Variant: destroy_collector forgets the reference.
MorAfterDestroy_Cleared(m) == None

\* destroy_collector assigns nothing: self._mor keeps the reference.
MorAfterDestroy(m) == m

destroy_collector ==
    /\ pc = "constructed"
    /\ IF mor = None THEN LocalFailure("destroy_collector", None) ELSE
       LET request == NewRequest("DestroyCollector", CollectorThis(mor))
       IN  \E fault \in SrvFaults(request.this) :
             /\ srvAlive' = IF fault = NoFault THEN FALSE ELSE srvAlive
             /\ mor' = IF fault = NoFault THEN MorAfterDestroy(mor) ELSE mor
             /\ last' = PlainCall("destroy_collector", None, request, fault)
             /\ streak' = NoStreak
             /\ UNCHANGED <<pc, props, srvMor, srvLen, srvCursor, srvPageSize, walk>>

set_collector_page_size(maxCount) ==
    /\ pc = "constructed"
    /\ IF mor = None THEN LocalFailure("set_collector_page_size", maxCount) ELSE
       LET request == [NewRequest("SetCollectorPageSize", CollectorThis(mor))
                          EXCEPT !.maxCount = Some(maxCount)]
       IN  \E fault \in SrvFaults(request.this) :
             /\ srvPageSize' = IF fault = NoFault THEN maxCount ELSE srvPageSize
             /\ last' = PlainCall("set_collector_page_size", maxCount, request, fault)
             /\ streak' = NoStreak
             /\ UNCHANGED <<pc, mor, props, srvMor, srvAlive, srvLen, srvCursor, walk>>

\* ------------------------------------------------------ get_latest_events
\* Variant: the cache is not flushed before the access.
GetLatestFlushed_NoFlush(p) == p

\* self._props._flush_cache()
GetLatestFlushed(p) == FlushCache(p)

\* The property retrieval the view performs when nothing is cached.
PropertyRetrievals(p) ==
    IF p.cache = Unfetched
    THEN <<NewRequest("RetrieveProperties", NewThis(Val(p.mor)))>>
    ELSE <<>>

\* for event in self._props.latestPage: ret.append(event)
CopyEvents(page) == [i \in 1..Len(page) |-> page[i]]

get_latest_events ==
    /\ pc = "constructed"
    /\ LET flushed == GetLatestFlushed(props)
           fetched == FetchProperty(flushed, PropertyValue)
           ret == IF ~HasLatestPage(fetched) THEN <<>>
                  ELSE CopyEvents(LatestPageOf(fetched))
       IN  /\ props' = fetched
           /\ last' = Call("get_latest_events", None,
                           PropertyRetrievals(flushed),
                           IF srvAlive THEN NoFault ELSE GoneFault, NoExc, Some(ret))
           /\ streak' = NoStreak
           /\ UNCHANGED <<pc, mor, srvVars, walk>>

\* ------------------------------------------------------------ paged reads
Direction(op) == IF op = "read_next_events" THEN "next" ELSE "prev"

__read_events(op, max_count, next_page) ==
    /\ pc = "constructed"
    /\ IF ~IsInstanceInt(max_count)
       THEN /\ last' = Call(op, max_count, <<>>, NoFault, ParameterError, None)
            /\ streak' = NoStreak
            /\ UNCHANGED <<pc, mor, props, srvVars, walk>>
       ELSE
       IF mor = None THEN LocalFailure(op, max_count) ELSE
       LET request == ReadRequest(mor, max_count, next_page)
       IN  \E fault \in SrvFaults(request.this) :
             LET r == SrvRead(request.name, srvCursor, srvLen, Val(request.maxCount))
                 ret == WrapEvents(r.items)
             IN  /\ IF fault = NoFault
                    THEN /\ srvCursor' = r.cursor
                         /\ last' = Call(op, max_count, <<request>>, fault, NoExc, Some(ret))
                         /\ walk' = IF walk.dir = Direction(op)
                                    THEN [walk EXCEPT !.items =
                                            @ \o [i \in 1..Len(ret) |-> ret[i].obj]]
                                    ELSE NoWalk
                         /\ streak' = IF max_count.val < 1 THEN NoStreak
                                      ELSE IF streak.dir = Direction(op)
                                      THEN [streak EXCEPT !.count = Min(@ + 1, MaxHist + 2)]
                                      ELSE [dir |-> Direction(op), count |-> 1]
                    ELSE /\ last' = Call(op, max_count, <<request>>, fault,
                                         TranslateFault(fault), None)
                         /\ streak' = NoStreak
                         /\ UNCHANGED <<srvCursor, walk>>
                 /\ UNCHANGED <<pc, mor, props, srvMor, srvAlive, srvLen, srvPageSize>>

read_next_events(max_count) == __read_events("read_next_events", max_count, TRUE)

read_previous_events(max_count) == __read_events("read_previous_events", max_count, FALSE)

\* ------------------------------------------------------------ environment
\* The server appends a new event to the history.
ServerAppendEvent ==
    /\ srvLen < MaxHist
    /\ srvLen' = srvLen + 1
    /\ streak' = NoStreak
    /\ UNCHANGED <<pc, mor, props, srvMor, srvAlive, srvCursor, srvPageSize, last, walk>>

Next ==
    \/ \E include_types \in TypeValues, include_users \in UserValues,
          beginTime \in TimeValues, endTime \in TimeValues :
          __init__(include_types, include_users, beginTime, endTime)
    \/ reset_collector
    \/ rewind_collector
    \/ destroy_collector
    \/ \E maxCount \in 1..MaxPage : set_collector_page_size(maxCount)
    \/ get_latest_events
    \/ \E max_count \in MaxCountValues : read_next_events(max_count)
    \/ \E max_count \in MaxCountValues : read_previous_events(max_count)
    \/ ServerAppendEvent

Spec == Init /\ [][Next]_vars

\* ------------------------------------------------------------- properties
ReadOps == {"read_next_events", "read_previous_events"}
FaultingOps ==
    {"__init__", "reset_collector", "rewind_collector", "destroy_collector"}
        \cup ReadOps

\* Python types that are not integers.
NonIntegerTypes == {"float", "str"}

EmptyFilter == [time |-> None, eventTypeId |-> None, userName |-> None]
SentFilter(request) ==
    IF request.filter = None THEN EmptyFilter ELSE Val(request.filter)

\* C1: a fault answered by the server to construction, reset_collector,
\* rewind_collector, destroy_collector or a paged read reaches the caller as
\* a VIApiException carrying that fault.
C1_FaultsWrapped ==
    (last.op \in FaultingOps /\ last.fault # NoFault) =>
        last.exc = [type |-> "VIApiException", detail |-> last.fault]

\* C2: the CreateCollectorForEvents request carries exactly the sub-filters
\* of the supplied dimensions: time iff beginTime or endTime is given (with
\* only the bounds given), event types iff the list is non-empty, users iff
\* include_users is given, then always with the system-user flag and with
\* the user list iff it is non-empty.
C2_ExactSubFilters ==
    last.op = "__init__" =>
        LET a == last.arg
            f == SentFilter(last.rpcs[1])
        IN  /\ Len(last.rpcs) = 1
            /\ last.rpcs[1].name = "CreateCollectorForEvents"
            /\ (f.time # None) <=> (a.beginTime # None \/ a.endTime # None)
            /\ f.time # None =>
                  /\ Val(f.time).beginTime = a.beginTime
                  /\ Val(f.time).endTime = a.endTime
            /\ (f.eventTypeId # None) <=>
                  (a.include_types # None /\ a.include_types # Some(<<>>))
            /\ f.eventTypeId # None => f.eventTypeId = a.include_types
            /\ (f.userName # None) <=> (a.include_users # None)
            /\ f.userName # None =>
                  LET u == Val(f.userName)
                      given == Val(a.include_users)
                  IN  /\ u.systemUser = Some(given[2])
                      /\ (u.userList # None) <=> (given[1] # <<>>)
                      /\ u.userList # None => u.userList = Some(given[1])

\* An empty user list with system = true, with a begin time and no end time.
C2_Witness ==
    /\ last.op = "__init__"
    /\ last.arg.include_users = Some(<<<<>>, TRUE>>)
    /\ last.arg.beginTime # None
    /\ last.arg.endTime = None
    /\ last.arg.include_types = Some(<<>>)
    /\ LET f == SentFilter(last.rpcs[1])
       IN  /\ f.userName = Some([systemUser |-> Some(TRUE), userList |-> None])
           /\ f.time # None
           /\ f.eventTypeId = None

NoDimensionSupplied(a) ==
    /\ a.beginTime = None
    /\ a.endTime = None
    /\ a.include_types = None
    /\ a.include_users = None

\* C3 as stated: the filter element is attached only if a filter dimension
\* was supplied; with no filter argument the request carries no filter.
C3_FilterOnlyIfSupplied ==
    (last.op = "__init__" /\ NoDimensionSupplied(last.arg)) =>
        last.rpcs[1].filter = None

\* C3 as amended: the filter element is attached to every
\* CreateCollectorForEvents request; with no filter argument it is attached
\* with no sub-filter in it.
C3_FilterAlwaysAttached ==
    last.op = "__init__" =>
        /\ last.rpcs[1].filter # None
        /\ NoDimensionSupplied(last.arg) => last.rpcs[1].filter = Some(EmptyFilter)

C3_Witness ==
    /\ last.op = "__init__"
    /\ NoDimensionSupplied(last.arg)
    /\ last.rpcs[1].filter = Some(EmptyFilter)

\* C4: a paged read whose max_count is not an integer fails with the
\* PARAMETER_ERROR validation exception, which is not the API exception of
\* service faults, before any remote call: no request is issued and the
\* server's position is unchanged.
C4_NonIntegerRejectedLocally ==
    (last.op \in ReadOps /\ last.arg.type \in NonIntegerTypes) =>
        /\ last.exc = [type |-> "VIException", detail |-> "PARAMETER_ERROR"]
        /\ last.exc.type # "VIApiException"
        /\ last.rpcs = <<>>
        /\ last.fault = NoFault
        /\ srvCursor = last.pre.cursor

C4_Witness ==
    /\ last.op = "read_previous_events"
    /\ last.arg.type = "str"
    /\ srvAlive
    /\ last.pre.cursor > 0
    /\ last.exc.type = "VIException"

\* C5: after construction or rewind_collector, successive read_next_events
\* calls return the history oldest to newest, nothing skipped or repeated
\* across calls; after reset_collector, successive read_previous_events
\* calls return it newest to oldest, nothing skipped or repeated.
C5_WalkInOrder ==
    /\ walk.dir = "next" =>
          \A i \in 1..Len(walk.items) : walk.items[i] = i
    /\ walk.dir = "prev" =>
          \A i \in 1..Len(walk.items) : walk.items[i] = walk.start - i + 1
    /\ (last.op \in ReadOps /\ last.ret # None /\ walk.dir = Direction(last.op)) =>
          LET got == Len(Val(last.ret))
              before == Len(walk.items) - got
              avail == IF walk.dir = "next" THEN last.pre.len - before
                       ELSE walk.start - before
          IN  /\ before >= 0
              /\ got = Min(last.arg.val, avail)
              /\ \A i \in 1..got : Val(last.ret)[i].obj = walk.items[before + i]

\* A backward walk over three items that took more than one call.
C5_Witness ==
    /\ walk.dir = "prev"
    /\ Len(walk.items) = 3
    /\ last.op = "read_previous_events"
    /\ last.ret # None
    /\ Len(Val(last.ret)) = 1

\* C6: on a finite history, repeated read_next_events(n) calls reach an
\* empty result without raising, and at the end every further
\* read_next_events is empty; likewise read_previous_events at the head.
C6_ReadsRunDry ==
    /\ streak.count > srvLen =>
          /\ last.op \in ReadOps
          /\ last.exc = NoExc
          /\ last.ret = Some(<<>>)
    /\ (last.op = "read_next_events" /\ last.rpcs # <<>> /\ last.fault = NoFault
            /\ last.pre.cursor = last.pre.len) =>
          (last.exc = NoExc /\ last.ret = Some(<<>>))
    /\ (last.op = "read_previous_events" /\ last.rpcs # <<>> /\ last.fault = NoFault
            /\ last.pre.cursor = 0) =>
          (last.exc = NoExc /\ last.ret = Some(<<>>))

\* More forward reads in a row than the history has items, ending empty.
C6_Witness ==
    /\ srvLen >= 2
    /\ streak = [dir |-> "next", count |-> srvLen + 1]
    /\ last.op = "read_next_events"
    /\ last.ret = Some(<<>>)
    /\ last.pre.cursor = last.pre.len

\* C7: get_latest_events flushes the cached view and then reads the latest
\* page: the result is the server's page at the time of the call, never an
\* earlier cached value; it is empty when the property is absent and has
\* every item of the page otherwise.
C7_LatestEventsFresh ==
    last.op = "get_latest_events" =>
        /\ last.exc = NoExc
        /\ last.pre.page = None => last.ret = Some(<<>>)
        /\ last.pre.page # None =>
              /\ last.ret # None
              /\ Len(Val(last.ret)) = Len(Val(last.pre.page))
              /\ \A i \in 1..Len(Val(last.ret)) :
                    Val(last.ret)[i] = Val(last.pre.page)[i]

\* A call made while the view held an earlier, different page.
C7_Witness ==
    /\ last.op = "get_latest_events"
    /\ last.pre.cache # Unfetched
    /\ last.pre.cache # Some(last.pre.page)
    /\ last.pre.page # None
    /\ last.ret = last.pre.page

\* C8: when CreateCollectorForEvents faults the constructor raises, keeps no
\* handle, creates no property view, and issues no further remote call.
C8_ConstructionAtomic ==
    (last.op = "__init__" /\ last.fault # NoFault) =>
        /\ pc = "failed"
        /\ last.exc.type = "VIApiException"
        /\ mor = None
        /\ ~props.created
        /\ Len(last.rpcs) = 1

C8_Witness ==
    /\ pc = "failed"
    /\ last.op = "__init__"
    /\ last.fault = "RuntimeFault"
    /\ mor = None

\* C9: after destroy_collector no operation raises a local exception because
\* of the destruction: each still issues its call on the stored handle and
\* its outcome is the server's answer.
C9_NoLocalGuardAfterDestroy ==
    (pc = "constructed" /\ last.op \notin {"none", "__init__"} /\ ~last.pre.alive) =>
        /\ last.exc.type # "AttributeError"
        /\ last.exc.type = "VIException" =>
              (last.op \in ReadOps /\ last.arg.type \notin {"int", "bool"})
        /\ last.exc.type # "VIException" =>
              /\ Len(last.rpcs) = 1
              /\ Some(last.rpcs[1].this.value) = srvMor
              /\ last.fault = GoneFault
              /\ last.op # "get_latest_events" => last.exc.detail = last.fault

C9_Witness ==
    /\ pc = "constructed"
    /\ ~last.pre.alive
    /\ last.op = "reset_collector"
    /\ Len(last.rpcs) = 1
    /\ last.exc.detail = GoneFault

\* C10: the handle stored at construction is never changed by a later
\* operation, failing ones included, and every remote call issued after
\* construction names that handle.
C10_HandleStable ==
    pc = "constructed" =>
        /\ mor # None
        /\ mor = srvMor
        /\ props.mor = srvMor
        /\ last.op # "__init__" =>
              \A i \in 1..Len(last.rpcs) :
                  Some(last.rpcs[i].this.value) = srvMor

C10_Witness ==
    /\ pc = "constructed"
    /\ ~srvAlive
    /\ last.op = "set_collector_page_size"
    /\ last.fault # NoFault
    /\ Len(last.rpcs) = 1
    /\ mor = srvMor

=============================================================================
